---- MODULE Spec2Model ----
(***************************************************************************)
(* Model of cli/commands/queue.py: the queue command of the Atomix CLI.    *)
(*                                                                         *)
(* Strings are sequences of characters.  The alphabet holds an ASCII pair  *)
(* ("I" / "i") and the one pair of Unicode characters on which Python's    *)
(* str.lower() changes the length of a string: "Idot" stands for U+0130    *)
(* (LATIN CAPITAL LETTER I WITH DOT ABOVE), whose lower case is the two    *)
(* characters "i" and "dot" (U+0307 COMBINING DOT ABOVE).                  *)
(***************************************************************************)
EXTENDS Integers, Sequences, FiniteSets, TLC

VARIABLES prefix, response, last, gen, invoked, sent, lookups, listed

vars == <<prefix, response, last, gen, invoked, sent, lookups, listed>>

(* ------------------------------ bounds --------------------------------- *)

\* Longest backend list of queue names.
MaxNames == 2
\* Most characters in one backend list, all names together.
MaxChars == 2
\* Longest typed prefix.
MaxPrefix == 2
\* Most invocations in one shell session.
MaxOps == 3

(* ------------------------------ strings -------------------------------- *)

Chars == {"I", "i", "Idot", "dot"}

StrsOfLen(n) == [1..n -> Chars]

StrsUpTo(n) == UNION {StrsOfLen(k) : k \in 0..n}

\* Python's None, and a str, as values of one shape.
None == [isNone |-> TRUE, str |-> <<>>]

Str(s) == [isNone |-> FALSE, str |-> s]

\* str.lower() of one character.
lowerChar(c) ==
    CASE c = "I" -> <<"i">>
      [] c = "Idot" -> <<"i", "dot">>
      [] OTHER -> <<c>>

RECURSIVE lower(_)
\* str.lower()
lower(s) == IF s = <<>> THEN <<>> ELSE lowerChar(Head(s)) \o lower(Tail(s))

\* str.startswith(p)
startswith(s, p) == Len(p) <= Len(s) /\ SubSeq(s, 1, Len(p)) = p

\* s[n:]
slice_from(s, n) == IF n >= Len(s) THEN <<>> ELSE SubSeq(s, n + 1, Len(s))

(* --------------------------- QueueResource ----------------------------- *)

HTTP_OK == 200

Statuses == {HTTP_OK, 404, 500}

\* The test without the lowering of either side.
matches_case_sensitive(queue, p) == startswith(queue, p)

\* The test of the loops of suggest and complete.
matches(queue, p) == startswith(lower(queue), lower(p))

\* The names taken from the body whatever the status.
get_queue_names_any_status(resp) == resp.json

\* QueueResource._get_queue_names, given the response of its GET.
get_queue_names(resp) ==
    IF resp.status_code = HTTP_OK THEN resp.json ELSE <<>>

RECURSIVE suggest_whole(_, _, _)
\* The loop returning the matching name itself, not what follows the prefix.
suggest_whole(queues, p, i) ==
    IF i > Len(queues) THEN None
    ELSE IF matches(queues[i], p) THEN Str(queues[i])
    ELSE suggest_whole(queues, p, i + 1)

RECURSIVE suggest_from(_, _, _)
\* The loop of QueueResource.suggest from the i-th queue on.
suggest_from(queues, p, i) ==
    IF i > Len(queues) THEN None
    ELSE IF matches(queues[i], p) THEN Str(slice_from(queues[i], Len(p)))
    ELSE suggest_from(queues, p, i + 1)

\* QueueResource.suggest, given the response of its GET.
suggest(resp, p) == suggest_from(get_queue_names(resp), p, 1)

RECURSIVE next_match(_, _, _)
\* The loop of QueueResource.complete resumed at the i-th queue: the index
\* of the queue it yields next, or Len(queues) + 1 when it runs off the end.
next_match(queues, p, i) ==
    IF i > Len(queues) THEN i
    ELSE IF matches(queues[i], p) THEN i
    ELSE next_match(queues, p, i + 1)

(* ------------------- the service client (cli.service) ------------------ *)

NoData == <<>>

NoHeaders == <<>>

\* url() called with no keyword arguments.
NoArgs == [a \in {} |-> a]

\* cli.service.url(template, **args): every placeholder of the template is
\* replaced by the text of its argument; the URL is the pieces in order.
url(template, args) ==
    [k \in 1..Len(template) |->
        IF template[k] \in DOMAIN args THEN args[template[k]] ELSE template[k]]

\* cli.service.get(url, log=...): one GET request.
service_get(u, log) ==
    [verb |-> "GET", url |-> u, data |-> NoData, headers |-> NoHeaders, log |-> log]

\* cli.service.post(url, data=..., headers=...): one POST request.
service_post(u, data, headers) ==
    [verb |-> "POST", url |-> u, data |-> <<data>>, headers |-> headers, log |-> TRUE]

\* cli.service.delete(url): one DELETE request.
service_delete(u) ==
    [verb |-> "DELETE", url |-> u, data |-> NoData, headers |-> NoHeaders, log |-> TRUE]

(* ------------------------- requests of the file ------------------------ *)

\* The request of QueueResource._get_queue_names.
list_request == service_get(url(<<"/v1/primitives/queues">>, NoArgs), FALSE)

\* The POST without its headers.
add_request_no_headers(queue, data) ==
    service_post(url(<<"/v1/primitives/queues/", "{queue}">>, "{queue}" :> queue),
                 data, NoHeaders)

\* The request of AddAction.execute.
add_request(queue, data) ==
    service_post(url(<<"/v1/primitives/queues/", "{queue}">>, "{queue}" :> queue),
                 data, <<<<"content-type", "text/plain">>>>)

\* The count argument dropped: always the default.
take_count_default(given) == "1"

\* The count parameter of TakeAction.execute: given is the sequence of the
\* optional argument, empty when it is omitted.  Counts are the digits that
\* url() renders them as.
take_count(given) == IF given = <<>> THEN "1" ELSE given[1]

\* The request of TakeAction.execute.
take_request(queue, count) ==
    service_get(url(<<"/v1/primitives/queues/", "{queue}", "?items=", "{count}">>,
                    ("{queue}" :> queue) @@ ("{count}" :> count)), TRUE)

\* The DELETE with queue and task in each other's place.
complete_request_swapped(queue, task) ==
    service_delete(url(<<"/v1/primitives/queues/", "{queue}", "/", "{task}">>,
                       ("{queue}" :> task) @@ ("{task}" :> queue)))

\* The request of CompleteAction.execute.
complete_request(queue, task) ==
    service_delete(url(<<"/v1/primitives/queues/", "{queue}", "/", "{task}">>,
                       ("{queue}" :> queue) @@ ("{task}" :> task)))

(* ------------------------------ printing ------------------------------- *)

\* What a handler leaves behind: the values it printed and the exception
\* that escaped it, if any.
Quiet == [printed |-> <<>>, raised |-> "none"]

Printed(v) == [printed |-> <<v>>, raised |-> "none"]

\* print(text + response.status_code): status_code is an int (it is compared
\* with 200), and str + int raises TypeError before print is called.
print_failed(text, status_code) == [printed |-> <<>>, raised |-> "TypeError"]

\* The tail of AddAction.execute.
add_outcome(resp) ==
    IF resp.status_code # HTTP_OK
    THEN print_failed("Add failed: ", resp.status_code)
    ELSE Quiet

\* The tail of TakeAction.execute.
take_outcome(resp) ==
    IF resp.status_code = HTTP_OK
    THEN Printed(resp.json)
    ELSE print_failed("Take failed: ", resp.status_code)

\* The tail of CompleteAction.execute.
complete_outcome(resp) ==
    IF resp.status_code # HTTP_OK
    THEN print_failed("Complete failed: ", resp.status_code)
    ELSE Quiet

(* ------------------------- calls to the service ------------------------ *)

\* The names kept from an earlier call: no request.
get_queue_names_cached == <<>>

\* The requests one call of QueueResource._get_queue_names issues.
get_queue_names_requests == <<list_request>>

\* The POST sent a second time.
add_requests_retried(queue, data) == <<add_request(queue, data), add_request(queue, data)>>

\* The requests one call of AddAction.execute issues.
add_requests(queue, data) == <<add_request(queue, data)>>

\* The requests one call of TakeAction.execute issues.
take_requests(queue, given) == <<take_request(queue, take_count(given))>>

\* The requests one call of CompleteAction.execute issues.
complete_requests(queue, task) == <<complete_request(queue, task)>>

(* ------------------------------- inputs -------------------------------- *)

RECURSIVE ListsOf(_, _)
\* The lists of k names of at most c characters together.
ListsOf(k, c) ==
    IF k = 0 THEN {<<>>}
    ELSE UNION {{<<n>> \o l : l \in ListsOf(k - 1, c - Len(n))} : n \in StrsUpTo(c)}

\* The lists of queue names a backend may return.
NameLists == UNION {ListsOf(k, MaxChars) : k \in 0..MaxNames}

Prefixes == StrsUpTo(MaxPrefix)

ListResponses == [status_code : Statuses, json : NameLists]

\* The inputs of a shell session.
Queues == {"orders", "jobs"}

Items == {"hello", ""}

Tasks == {"t1", "t2"}

Counts == {<<>>, <<"1">>, <<"3">>}

TakeBodies == {"[]", "[{id: t1, value: hello}]"}

PlainResponses == [status_code : Statuses, json : {""}]

TakeResponses == [status_code : Statuses, json : TakeBodies]

ShellPrefixes == {<<>>, <<"i">>, <<"Idot">>}

ShellLists == {<<>>, <<<<"I", "i">>>>, <<<<"dot">>, <<"i", "dot">>>>}

ShellListResponses == [status_code : Statuses, json : ShellLists]

(* ------------------------------- state --------------------------------- *)

NoResponse == [status_code |-> 0, json |-> <<>>]

\* Nothing has been invoked yet.
Idle ==
    [op |-> "none", args |-> <<>>, requests |-> <<>>, response |-> NoResponse,
     printed |-> <<>>, raised |-> "none", result |-> None]

\* No generator of QueueResource.complete exists.
NoGen ==
    [state |-> "none", prefix |-> <<>>, queues |-> <<>>, i |-> 0,
     yielded |-> <<>>, response |-> NoResponse]

Handled(op, args, requests, resp, outcome, result) ==
    [op |-> op, args |-> args, requests |-> requests, response |-> resp,
     printed |-> outcome.printed, raised |-> outcome.raised, result |-> result]

CanInvoke == invoked + lookups < MaxOps

(* ------------------------------ actions -------------------------------- *)

\* AddAction.execute(queue, data), answered by resp.
Add(queue, data, resp) ==
    /\ CanInvoke
    /\ last' = Handled("add", <<queue, data>>, add_requests(queue, data), resp,
                       add_outcome(resp), None)
    /\ invoked' = invoked + 1
    /\ sent' = sent + Len(add_requests(queue, data))
    /\ UNCHANGED <<prefix, response, gen, lookups, listed>>

\* TakeAction.execute(queue[, count]), answered by resp.
Take(queue, given, resp) ==
    /\ CanInvoke
    /\ last' = Handled("take", <<queue>> \o given, take_requests(queue, given), resp,
                       take_outcome(resp), None)
    /\ invoked' = invoked + 1
    /\ sent' = sent + Len(take_requests(queue, given))
    /\ UNCHANGED <<prefix, response, gen, lookups, listed>>

\* CompleteAction.execute(queue, task), answered by resp.
Complete(queue, task, resp) ==
    /\ CanInvoke
    /\ last' = Handled("complete", <<queue, task>>, complete_requests(queue, task),
                       resp, complete_outcome(resp), None)
    /\ invoked' = invoked + 1
    /\ sent' = sent + Len(complete_requests(queue, task))
    /\ UNCHANGED <<prefix, response, gen, lookups, listed>>

\* QueueResource.suggest(p), its GET answered by resp.
Suggest(p, resp) ==
    /\ CanInvoke
    /\ last' = Handled("suggest", <<p>>, get_queue_names_requests, resp, Quiet,
                       suggest(resp, p))
    /\ lookups' = lookups + 1
    /\ listed' = listed + Len(get_queue_names_requests)
    /\ UNCHANGED <<prefix, response, gen, invoked, sent>>

\* QueueResource.complete(p): the call makes the generator and runs none of
\* the body.  One generator is followed at a time: the next one is made once
\* this one has been advanced.
CompleteCall(p) ==
    /\ CanInvoke
    /\ gen.state # "created"
    /\ gen' = [NoGen EXCEPT !.state = "created", !.prefix = p]
    /\ lookups' = lookups + 1
    /\ UNCHANGED <<prefix, response, last, invoked, sent, listed>>

\* The generator g run from the i-th queue to its next yield or to its end.
run_from(g, i) ==
    LET j == next_match(g.queues, g.prefix, i)
    IN  IF j <= Len(g.queues)
        THEN [g EXCEPT !.state = "suspended", !.i = j,
                       !.yielded = Append(g.yielded, g.queues[j])]
        ELSE [g EXCEPT !.state = "done", !.i = j]

\* The first next() of the generator: the body starts, fetches the names
\* (the GET answered by resp) and runs to the first yield or to the end.
CompleteStart(resp) ==
    /\ gen.state = "created"
    /\ gen' = run_from([gen EXCEPT !.queues = get_queue_names(resp),
                                   !.response = resp], 1)
    /\ listed' = listed + Len(get_queue_names_requests)
    /\ UNCHANGED <<prefix, response, last, invoked, sent, lookups>>

\* A later next() of the generator: the loop goes on after the last yield.
CompleteResume ==
    /\ gen.state = "suspended"
    /\ gen' = run_from(gen, gen.i + 1)
    /\ UNCHANGED <<prefix, response, last, invoked, sent, lookups, listed>>

(* --------------------------- specifications ---------------------------- *)

\* A shell session: any handlers in any order, any answers of the backend.
Init ==
    /\ prefix = <<>>
    /\ response = NoResponse
    /\ last = Idle
    /\ gen = NoGen
    /\ invoked = 0
    /\ sent = 0
    /\ lookups = 0
    /\ listed = 0

Next ==
    \/ \E q \in Queues, d \in Items, r \in PlainResponses : Add(q, d, r)
    \/ \E q \in Queues, c \in Counts, r \in TakeResponses : Take(q, c, r)
    \/ \E q \in Queues, t \in Tasks, r \in PlainResponses : Complete(q, t, r)
    \/ \E p \in ShellPrefixes, r \in ShellListResponses : Suggest(p, r)
    \/ \E p \in ShellPrefixes : CompleteCall(p)
    \/ \E r \in ShellListResponses : CompleteStart(r)
    \/ CompleteResume

Spec == Init /\ [][Next]_vars

\* One prefix and one answer of the backend, drawn from all within the
\* bounds, given to suggest and to complete.
NamesInit ==
    /\ response \in ListResponses
    /\ prefix \in Prefixes
    /\ last = Idle
    /\ gen = NoGen
    /\ invoked = 0
    /\ sent = 0
    /\ lookups = 0
    /\ listed = 0

NamesNext ==
    \/ last.op = "none" /\ Suggest(prefix, response)
    \/ gen.state = "none" /\ CompleteCall(prefix)
    \/ CompleteStart(response)
    \/ CompleteResume

SpecNames == NamesInit /\ [][NamesNext]_vars

(* ----------------------------- properties ------------------------------ *)

\* q, lowercased, starts with p, lowercased.
StartsWithIgnoringCase(q, p) ==
    \E k \in 0..Len(lower(q)) : SubSeq(lower(q), 1, k) = lower(p)

\* s without its first n characters.
DropFirst(s, n) ==
    [k \in 1..(IF Len(s) > n THEN Len(s) - n ELSE 0) |-> s[k + n]]

\* The names of L that start with P ignoring case, in L's order.
Matching(L, P) == SelectSeq(L, LAMBDA q : StartsWithIgnoringCase(q, P))

IsPrefixOf(a, b) == Len(a) <= Len(b) /\ SubSeq(b, 1, Len(a)) = a

\* What suggest(P) is to return on the list L.
FirstSuggestion(L, P) ==
    IF \E i \in 1..Len(L) : StartsWithIgnoringCase(L[i], P)
    THEN LET i == CHOOSE i \in 1..Len(L) :
                      /\ StartsWithIgnoringCase(L[i], P)
                      /\ \A j \in 1..(i - 1) : ~StartsWithIgnoringCase(L[j], P)
         IN  Str(DropFirst(L[i], Len(P)))
    ELSE None

\* The generator has been advanced at least once.
Started == gen.state \in {"suspended", "done"}

Shell == {"add", "take", "complete"}

\* C1: on a listing answered with status 200, suggest(P) returns the first
\* name of the list, in the backend's order, that starts with P ignoring
\* case, without its first len(P) characters, and None when no name does.
C1_SuggestFirstMatch ==
    (last.op = "suggest" /\ last.response.status_code = HTTP_OK)
        => last.result = FirstSuggestion(last.response.json, last.args[1])

\* suggest passed over a name that does not match and returned the next.
C1_Witness ==
    /\ last.op = "suggest"
    /\ last.response.status_code = HTTP_OK
    /\ Len(last.response.json) = 2
    /\ ~StartsWithIgnoringCase(last.response.json[1], last.args[1])
    /\ StartsWithIgnoringCase(last.response.json[2], last.args[1])
    /\ last.result = Str(<<>>)
    /\ last.args[1] # <<>>

\* C2: what complete(P) has yielded is always the beginning of the names of
\* the list that start with P ignoring case, in the list's order, and all
\* of them once the generator has ended; it ends within len(L) + 1 steps.
C2_CompleteYieldsMatching ==
    (Started /\ gen.response.status_code = HTTP_OK)
        => /\ IsPrefixOf(gen.yielded, Matching(gen.response.json, gen.prefix))
           /\ gen.state = "done"
                => gen.yielded = Matching(gen.response.json, gen.prefix)
           /\ gen.state = "suspended" => gen.yielded # <<>>
           /\ Len(gen.yielded) <= gen.i
           /\ gen.i <= Len(gen.response.json) + 1

\* complete ended having yielded one of two names and left the other out.
C2_Witness ==
    /\ gen.state = "done"
    /\ gen.response.status_code = HTTP_OK
    /\ Len(gen.response.json) = 2
    /\ Len(gen.yielded) = 1
    /\ gen.yielded[1] # gen.prefix

\* C3: the names are the body of a listing answered with status 200 and
\* the empty list for any other status, with no exception: after such an
\* answer suggest returns None and complete ends having yielded nothing.
C3_ListingDegradesToEmpty ==
    /\ (last.op = "suggest" /\ last.response.status_code # HTTP_OK)
           => last.result = None /\ last.raised = "none"
    /\ (Started /\ gen.response.status_code # HTTP_OK)
           => gen.queues = <<>> /\ gen.yielded = <<>> /\ gen.state = "done"
    /\ (Started /\ gen.response.status_code = HTTP_OK)
           => gen.queues = gen.response.json

\* A 404 whose body holds a name that matches the prefix.
C3_Witness ==
    /\ last.op = "suggest"
    /\ Started
    /\ last.response.status_code = 404
    /\ gen.response.status_code = 404
    /\ Matching(gen.response.json, gen.prefix) # <<>>

\* C4: after any status but 200, add, take and complete have printed one
\* message that holds the status code, and no exception has left them.
C4_FailurePrinted ==
    (last.op \in Shell /\ last.response.status_code # HTTP_OK)
        => /\ last.raised = "none"
           /\ Len(last.printed) = 1
           /\ \E k \in DOMAIN last.printed[1] :
                  last.printed[1][k] = last.response.status_code

\* C5: add(q, d) issues a POST to /v1/primitives/queues/q with the body d
\* and the content type text/plain; on status 200 it prints nothing and
\* returns None.
C5_AddRequest ==
    last.op = "add"
        => /\ Len(last.requests) = 1
           /\ last.requests[1].verb = "POST"
           /\ last.requests[1].url = <<"/v1/primitives/queues/", last.args[1]>>
           /\ last.requests[1].data = <<last.args[2]>>
           /\ last.requests[1].headers = <<<<"content-type", "text/plain">>>>
           /\ last.response.status_code = HTTP_OK
                => /\ last.printed = <<>>
                   /\ last.raised = "none"
                   /\ last.result = None

C5_Witness ==
    /\ last.op = "add"
    /\ last.args = <<"orders", "hello">>
    /\ last.response.status_code = HTTP_OK

\* C6: take(q[, n]) issues a GET to /v1/primitives/queues/q?items=n, with
\* n = 1 when the count is left out; on status 200 it prints the body of
\* the response as it is, and on any other status it does not print it.
C6_TakeRequest ==
    last.op = "take"
        => /\ Len(last.requests) = 1
           /\ last.requests[1].verb = "GET"
           /\ last.requests[1].url =
                  <<"/v1/primitives/queues/", last.args[1], "?items=",
                    IF Len(last.args) = 1 THEN "1" ELSE last.args[2]>>
           /\ last.response.status_code = HTTP_OK
                => last.printed = <<last.response.json>> /\ last.raised = "none"
           /\ last.response.status_code # HTTP_OK
                => \A k \in DOMAIN last.printed : last.printed[k] # last.response.json

C6_Witness ==
    /\ last.op = "take"
    /\ last.args = <<"orders", "3">>
    /\ last.response.status_code = HTTP_OK
    /\ last.printed = <<"[{id: t1, value: hello}]">>

\* C7: complete(q, t) issues a DELETE to /v1/primitives/queues/q/t; on
\* status 200 it prints nothing and returns None.
C7_CompleteRequest ==
    last.op = "complete"
        => /\ Len(last.requests) = 1
           /\ last.requests[1].verb = "DELETE"
           /\ last.requests[1].url =
                  <<"/v1/primitives/queues/", last.args[1], "/", last.args[2]>>
           /\ last.requests[1].data = NoData
           /\ last.response.status_code = HTTP_OK
                => /\ last.printed = <<>>
                   /\ last.raised = "none"
                   /\ last.result = None

C7_Witness ==
    /\ last.op = "complete"
    /\ last.args = <<"orders", "t1">>
    /\ last.response.status_code = HTTP_OK

\* C8: add, take and complete have issued as many requests as there were
\* invocations of them, one each whatever the status of the answer.
C8_OneRequestPerInvocation ==
    /\ sent = invoked
    /\ last.op \in Shell => Len(last.requests) = 1

\* Several invocations, the last one answered with a failure.
C8_Witness ==
    /\ invoked = MaxOps
    /\ last.op = "add"
    /\ last.response.status_code = 500

\* What the generator is to have yielded, from the answer to its own GET.
OwnMatching ==
    IF gen.response.status_code = HTTP_OK
    THEN Matching(gen.response.json, gen.prefix)
    ELSE <<>>

\* What the last suggest is to have returned, from the answer to its own GET.
OwnSuggestion ==
    IF last.response.status_code = HTTP_OK
    THEN FirstSuggestion(last.response.json, last.args[1])
    ELSE None

ResultsFromOwnList ==
    /\ last.op = "suggest" => last.result = OwnSuggestion
    /\ Started => IsPrefixOf(gen.yielded, OwnMatching)
    /\ gen.state = "done" => gen.yielded = OwnMatching

\* C9 as stated: there are as many listing GETs as invocations of suggest
\* and complete, and every result comes from the list of its own GET.
C9_FetchPerInvocation ==
    /\ listed = lookups
    /\ ResultsFromOwnList

\* C9 amended: suggest issues its listing GET when invoked, complete when
\* its generator is first advanced: the listing GETs are the invocations
\* less the generator not advanced yet; every result comes from the list
\* of its own GET.
C9_FetchPerAdvancedInvocation ==
    /\ listed = lookups - (IF gen.state = "created" THEN 1 ELSE 0)
    /\ ResultsFromOwnList

\* A suggest and a generator that got different lists, after other
\* handlers ran.
C9_Witness ==
    /\ last.op = "suggest"
    /\ gen.state = "done"
    /\ lookups = 2
    /\ listed = 2
    /\ last.args[1] = gen.prefix
    /\ last.response.status_code = HTTP_OK
    /\ gen.response.status_code = HTTP_OK
    /\ last.response.json # gen.response.json
    /\ last.result # None
    /\ gen.yielded = <<>>

\* C10: suggest(P) returns a suggestion exactly when complete(P) yields a
\* name; the suggestion is the first name yielded without its first len(P)
\* characters, these characters are P ignoring case, and the name is as
\* long as P and the suggestion together.
C10_SuggestAgreesWithComplete ==
    (last.op = "suggest" /\ gen.state = "done")
        => /\ last.result = None <=> gen.yielded = <<>>
           /\ gen.yielded # <<>>
                => /\ last.result = Str(DropFirst(gen.yielded[1], Len(prefix)))
                   /\ Len(gen.yielded[1]) = Len(prefix) + Len(last.result.str)
                   /\ lower(SubSeq(gen.yielded[1], 1, Len(prefix))) = lower(prefix)

====
